---- MODULE Spec2Model ----
(***************************************************************************)
(* Weighted round-robin scheduling class, kernel/sched/wrr.c.              *)
(*                                                                         *)
(* The model keeps the per-CPU WRR run queues (list order, nr_running,     *)
(* total_weight), the per-task WRR entity (on_rq, weight, time_slice), the *)
(* owning runqueue's nr_running, curr and need-resched flag, the runqueue  *)
(* locks, the local variables of load_balance_wrr for two passes, and the  *)
(* tick count, deadline and softirq flag of trigger_load_balance_wrr.      *)
(*                                                                         *)
(* The intrusive list wrr_rq->queue is a sequence: position 1 is the entry *)
(* after the list head, the last position is the entry before it.          *)
(***************************************************************************)
EXTENDS Integers, Sequences, FiniteSets, TLC

\* ---------------------------------------------------------------- bounds
NR_CPUS == 2
NR_TASKS == 3
LB_TASKS == 2
MaxPicks == 3 * NR_TASKS
\* msecs_to_jiffies(2000), the balancing period, counted in timer ticks, and
\* the last tick that is followed.
BalancePeriod == 2
MaxJiffies == 3 * BalancePeriod

CPUs == 0 .. (NR_CPUS - 1)
Tasks == 1 .. NR_TASKS
\* The tasks that take part while the balancer is observed, and their weights.
LBTasks == 1 .. LB_TASKS
LBWeight(p) == IF p % 2 = 1 THEN 3 ELSE 1
\* The CPU whose dispatcher is observed tick by tick.
RRCpus == {0}
Weights == {1, 3}
TickWeights == {1, 5, 10}

\* ------------------------------------------------------------- constants
WRR_TIMESLICE == 10
NULL == 0
NO_CPU == -1
Flags == {"0", "ENQUEUE_HEAD"}
SCHED_WRR == "SCHED_WRR"

VARIABLES
    queue,          \* [CPUs -> Seq(Tasks)]   rq->wrr.queue, head first
    nr_running,     \* [CPUs -> Int]          rq->wrr.nr_running
    total_weight,   \* [CPUs -> Int]          rq->wrr.total_weight
    rq_nr_running,  \* [CPUs -> Int]          rq->nr_running (add_nr_running)
    curr,           \* [CPUs -> Tasks \cup {NULL}]  rq->curr, NULL: no WRR task
    resched,        \* [CPUs -> BOOLEAN]      resched_curr(rq) pending
    lock,           \* [CPUs -> {"free","lb","other"}]  rq->lock and holder
    on_rq,          \* [Tasks -> {0,1}]       p->wrr.on_rq
    weight,         \* [Tasks -> Int]         p->wrr.weight
    time_slice,     \* [Tasks -> Int]         p->wrr.time_slice (32-bit pattern)
    task_cpu,       \* [Tasks -> CPUs]        task_rq(p)
    cpus_allowed,   \* [Tasks -> SUBSET CPUs] p->cpus_allowed
    lb,             \* locals and position of load_balance_wrr
    lb_other,       \* the same for a second pass, on another CPU
    jiffies,        \* the timer tick count
    next_balance_wrr,  \* rq->next_balance_wrr, read by the trigger
    softirq,        \* BOOLEAN: SCHED_SOFTIRQ_WRR is raised
    last,           \* observer: the last operation called
    picks,          \* observer: the tasks returned by pick_next_task_wrr
    nticks          \* observer: [Tasks -> Nat] ticks since the slice was set

rqvars == <<queue, nr_running, total_weight, rq_nr_running, on_rq>>
taskvars == <<weight, task_cpu, cpus_allowed>>
softirqvars == <<lb_other, jiffies, next_balance_wrr, softirq>>
obsvars == <<last, picks, nticks>>
vars == <<queue, nr_running, total_weight, rq_nr_running, curr, resched, lock,
          on_rq, weight, time_slice, task_cpu, cpus_allowed, lb, lb_other,
          jiffies, next_balance_wrr, softirq, last, picks, nticks>>

\* ------------------------------------------------------------ list.h use
list_add_tail(q, e) == Append(q, e)

list_del_init(q, e) == SelectSeq(q, LAMBDA x : x # e)

\* list_move() unlinks the entry and list_add()s it right after the head.
list_move(q, e) == <<e>> \o list_del_init(q, e)

list_last_entry_or_null(q) == IF q = <<>> THEN NULL ELSE q[Len(q)]

list_first_entry_or_null(q) == IF q = <<>> THEN NULL ELSE Head(q)

PosOf(q, e) == CHOOSE i \in 1 .. Len(q) : q[i] = e

Linked(q, e) == \E i \in 1 .. Len(q) : q[i] = e

\* run_list.prev / run_list.next of a task's entity: the list head of its
\* run queue, a neighbouring entity, or itself when unlinked (list_del_init).
run_list_prev(p) ==
    LET q == queue[task_cpu[p]] IN
    IF ~Linked(q, p) THEN <<"se", p>>
    ELSE IF PosOf(q, p) = 1 THEN <<"head", task_cpu[p]>>
    ELSE <<"se", q[PosOf(q, p) - 1]>>

run_list_next(p) ==
    LET q == queue[task_cpu[p]] IN
    IF ~Linked(q, p) THEN <<"se", p>>
    ELSE IF PosOf(q, p) = Len(q) THEN <<"head", task_cpu[p]>>
    ELSE <<"se", q[PosOf(q, p) + 1]>>

RECURSIVE SumWeights(_)
SumWeights(q) == IF q = <<>> THEN 0 ELSE weight[Head(q)] + SumWeights(Tail(q))

\* ------------------------------------------------------------- observers
\* last.rep is 2 when the same call (operation, runqueue, task, argument)
\* directly follows itself, else 1; last.n is the number of ticks a slice
\* lasted, on the tick that ends it, else 0.
Rep(op, c, p, arg) ==
    IF last.op = op /\ last.cpu = c /\ last.task = p /\ last.arg = arg
    THEN 2 ELSE 1

Called(op, c, p, arg) ==
    last' = [op |-> op, cpu |-> c, task |-> p, arg |-> arg,
             rep |-> Rep(op, c, p, arg), n |-> 0]

NoCall == [op |-> "none", cpu |-> NO_CPU, task |-> NULL, arg |-> "0",
           rep |-> 1, n |-> 0]

\* ----------------------------------------------------------- on_wrr_rq
on_wrr_rq(p) == on_rq[p]

\* ------------------------------------------------ inc/dec_wrr_tasks
inc_wrr_tasks_no_weight(p, c) ==
    /\ on_rq' = [on_rq EXCEPT ![p] = 1]
    /\ nr_running' = [nr_running EXCEPT ![c] = @ + 1]
    /\ total_weight' = total_weight

inc_wrr_tasks(p, c) ==
    /\ on_rq' = [on_rq EXCEPT ![p] = 1]
    /\ nr_running' = [nr_running EXCEPT ![c] = @ + 1]
    /\ total_weight' = [total_weight EXCEPT ![c] = @ + weight[p]]

dec_wrr_tasks_keeps_on_rq(p, c) ==
    /\ on_rq' = on_rq
    /\ nr_running' = [nr_running EXCEPT ![c] = @ - 1]
    /\ total_weight' = [total_weight EXCEPT ![c] = @ - weight[p]]

dec_wrr_tasks(p, c) ==
    /\ on_rq' = [on_rq EXCEPT ![p] = 0]
    /\ nr_running' = [nr_running EXCEPT ![c] = @ - 1]
    /\ total_weight' = [total_weight EXCEPT ![c] = @ - weight[p]]

\* ------------------------------------------------------ enqueue_task_wrr
\* flags is accepted and never read; the entity always goes to the tail of
\* the queue of task_rq(p) (wrr_rq_of_se).
enqueue_task_wrr_head_on_flag(rq, p, flags) ==
    IF on_wrr_rq(p) # 0
    THEN UNCHANGED rqvars
    ELSE /\ queue' = [queue EXCEPT ![task_cpu[p]] =
                         IF flags = "ENQUEUE_HEAD" THEN <<p>> \o @
                         ELSE list_add_tail(@, p)]
         /\ inc_wrr_tasks(p, task_cpu[p])
         /\ rq_nr_running' = [rq_nr_running EXCEPT ![rq] = @ + 1]

enqueue_task_wrr(rq, p, flags) ==
    IF on_wrr_rq(p) # 0
    THEN UNCHANGED rqvars
    ELSE /\ queue' = [queue EXCEPT ![task_cpu[p]] = list_add_tail(@, p)]
         /\ inc_wrr_tasks(p, task_cpu[p])
         /\ rq_nr_running' = [rq_nr_running EXCEPT ![rq] = @ + 1]

\* ------------------------------------------------------ dequeue_task_wrr
dequeue_task_wrr_unguarded(rq, p, flags) ==
    /\ queue' = [queue EXCEPT ![task_cpu[p]] = list_del_init(@, p)]
    /\ dec_wrr_tasks(p, task_cpu[p])
    /\ rq_nr_running' = [rq_nr_running EXCEPT ![rq] = @ - 1]

dequeue_task_wrr(rq, p, flags) ==
    IF on_wrr_rq(p) = 0
    THEN UNCHANGED rqvars
    ELSE /\ queue' = [queue EXCEPT ![task_cpu[p]] = list_del_init(@, p)]
         /\ dec_wrr_tasks(p, task_cpu[p])
         /\ rq_nr_running' = [rq_nr_running EXCEPT ![rq] = @ - 1]

\* ------------------------------------------------------ requeue_task_wrr
\* The new queue of runqueue rq after requeue_task_wrr(rq, p).
requeue_task_wrr(rq, p) ==
    IF on_wrr_rq(p) = 0 THEN queue[rq] ELSE list_move(queue[rq], p)

\* ---------------------------------------------------- pick_next_task_wrr
\* put_prev_task(rq, prev) reaches put_prev_task_wrr for a WRR prev; NULL
\* stands for a prev of another class, whose put_prev leaves the WRR queue.
put_prev_task_wrr(rq, prev) ==
    IF prev = NULL THEN queue[rq] ELSE requeue_task_wrr(rq, prev)

pick_next_task_wrr(rq, prev) ==
    list_first_entry_or_null(put_prev_task_wrr(rq, prev))

\* ---------------------------------------------------------------- actions
\* Every local operation runs with rq->lock of its CPU held. Each operation
\* is written once, without the observers, and used by the actions below.
EnqueueOp(p, flags) ==
    /\ lock[task_cpu[p]] = "free"
    /\ enqueue_task_wrr(task_cpu[p], p, flags)
    /\ UNCHANGED <<curr, resched, lock, time_slice, taskvars, softirqvars, lb>>

DequeueOp(p) ==
    /\ lock[task_cpu[p]] = "free"
    /\ dequeue_task_wrr(task_cpu[p], p, "0")
    /\ UNCHANGED <<curr, resched, lock, time_slice, taskvars, softirqvars, lb>>

\* yield_task_wrr(rq): requeue_task_wrr(rq, rq->curr).
YieldOp(c) ==
    /\ lock[c] = "free"
    /\ curr[c] # NULL
    /\ queue' = [queue EXCEPT ![c] = requeue_task_wrr(c, curr[c])]
    /\ UNCHANGED <<nr_running, total_weight, rq_nr_running, on_rq, curr,
                   resched, lock, time_slice, taskvars, softirqvars, lb>>

\* put_prev_task_wrr(rq, rq->curr), as the core calls it for the running task.
PutPrevOp(c) ==
    /\ lock[c] = "free"
    /\ curr[c] # NULL
    /\ queue' = [queue EXCEPT ![c] = put_prev_task_wrr(c, curr[c])]
    /\ UNCHANGED <<nr_running, total_weight, rq_nr_running, on_rq, curr,
                   resched, lock, time_slice, taskvars, softirqvars, lb>>

\* The dispatcher: pick_next_task_wrr(rq, rq->curr), the result becomes
\* rq->curr and the pending reschedule request is consumed.
ScheduleOp(c) ==
    /\ lock[c] = "free"
    /\ queue' = [queue EXCEPT ![c] = put_prev_task_wrr(c, curr[c])]
    /\ curr' = [curr EXCEPT ![c] = pick_next_task_wrr(c, curr[c])]
    /\ resched' = [resched EXCEPT ![c] = FALSE]
    /\ UNCHANGED <<nr_running, total_weight, rq_nr_running, on_rq, lock,
                   time_slice, taskvars, softirqvars, lb>>

Enqueue ==
    \E p \in Tasks, flags \in Flags :
        /\ EnqueueOp(p, flags)
        /\ Called("enqueue", task_cpu[p], p, flags)
        /\ UNCHANGED <<picks, nticks>>

Dequeue ==
    \E p \in Tasks :
        /\ DequeueOp(p)
        /\ Called("dequeue", task_cpu[p], p, "0")
        /\ UNCHANGED <<picks, nticks>>

Yield ==
    \E c \in CPUs :
        /\ YieldOp(c)
        /\ Called("yield", c, curr[c], "0")
        /\ UNCHANGED <<picks, nticks>>

PutPrev ==
    \E c \in CPUs :
        /\ PutPrevOp(c)
        /\ Called("requeue", c, curr[c], "0")
        /\ UNCHANGED <<picks, nticks>>

Schedule ==
    \E c \in CPUs :
        /\ ScheduleOp(c)
        /\ Called("pick_next", c, curr[c], "0")
        /\ UNCHANGED <<picks, nticks>>

\* ------------------------------------------------------------------ Init
LbIdle == [pc |-> "idle", cpu |-> NO_CPU, max_cpu |-> NO_CPU, min_cpu |-> NO_CPU,
           max_weight_sum |-> -1, min_weight_sum |-> -1, wrr_se_max |-> NULL,
           next_balance |-> 0]

\* No second pass runs, no tick has counted, the softirq is not raised;
\* next_balance_wrr is set nowhere in this file and starts as 0.
InitSoftirq ==
    /\ lb_other = LbIdle
    /\ jiffies = 0
    /\ next_balance_wrr = 0
    /\ softirq = FALSE

InitRq ==
    /\ queue = [c \in CPUs |-> <<>>]
    /\ nr_running = [c \in CPUs |-> 0]
    /\ total_weight = [c \in CPUs |-> 0]
    /\ rq_nr_running = [c \in CPUs |-> 0]
    /\ curr = [c \in CPUs |-> NULL]
    /\ resched = [c \in CPUs |-> FALSE]
    /\ lock = [c \in CPUs |-> "free"]
    /\ on_rq = [p \in Tasks |-> 0]
    /\ lb = LbIdle
    /\ InitSoftirq
    /\ last = NoCall
    /\ picks = <<>>
    /\ nticks = [p \in Tasks |-> 0]

\* One run queue: every task belongs to CPU 0.
Init ==
    /\ InitRq
    /\ weight \in [Tasks -> Weights]
    /\ time_slice = [p \in Tasks |-> weight[p] * WRR_TIMESLICE]
    /\ task_cpu = [p \in Tasks |-> 0]
    /\ cpus_allowed = [p \in Tasks |-> CPUs]

Next == Enqueue \/ Dequeue \/ Yield \/ PutPrev \/ Schedule

Spec == Init /\ [][Next]_vars

\* --------------------------------------------------------- task_tick_wrr
\* The policy of a task that wrr_sched_class.task_tick is called for.
policy(p) == SCHED_WRR

\* run_list.prev != run_list.next: another entity is linked beside p.
always_requeue(p) == TRUE

others_queued(p) == run_list_prev(p) # run_list_next(p)

\* time_slice is a 32-bit field; the model holds its bit pattern read as a
\* two's-complement number, so that --time_slice is a subtraction of 1 for
\* every value but the smallest, and 0 is the only pattern that tests false.
\* The first decrement is the condition of the if that guards
\* update_curr_wrr(rq), which changes no modelled state; the second one
\* decides the expiry.
SliceAfterFirstDec(p) == time_slice[p] - 1

SliceAfterSecondDec(p) == SliceAfterFirstDec(p) - 1

TickExpires(p) == policy(p) = SCHED_WRR /\ SliceAfterSecondDec(p) = 0

task_tick_wrr(rq, p) ==
    IF policy(p) # SCHED_WRR
    THEN /\ time_slice' = [time_slice EXCEPT ![p] = SliceAfterFirstDec(p)]
         /\ UNCHANGED <<queue, resched>>
    ELSE IF SliceAfterSecondDec(p) # 0
    THEN /\ time_slice' = [time_slice EXCEPT ![p] = SliceAfterSecondDec(p)]
         /\ UNCHANGED <<queue, resched>>
    ELSE /\ time_slice' = [time_slice EXCEPT ![p] = weight[p] * WRR_TIMESLICE]
         /\ IF others_queued(p)
            THEN /\ queue' = [queue EXCEPT ![rq] = requeue_task_wrr(rq, p)]
                 /\ resched' = [resched EXCEPT ![rq] = TRUE]
            ELSE UNCHANGED <<queue, resched>>

\* The timer tick of a CPU whose current task is a WRR task; the dispatcher
\* ticks the picked task until the tick asks for a reschedule.
Tick ==
    \E c \in RRCpus :
        /\ lock[c] = "free"
        /\ curr[c] # NULL
        /\ ~resched[c]
        /\ task_tick_wrr(c, curr[c])
        /\ nticks' = [nticks EXCEPT ![curr[c]] =
                         IF TickExpires(curr[c]) THEN 0 ELSE @ + 1]
        /\ last' = [op |-> "tick", cpu |-> c, task |-> curr[c],
                    arg |-> IF TickExpires(curr[c]) THEN "expired" ELSE "0",
                    rep |-> 1,
                    n |-> IF TickExpires(curr[c]) THEN nticks[curr[c]] + 1 ELSE 0]
        /\ UNCHANGED <<nr_running, total_weight, rq_nr_running, on_rq, curr,
                       lock, taskvars, softirqvars, lb, picks>>

\* The dispatcher picks when the CPU runs no WRR task or a reschedule has
\* been asked for; every pick is recorded.
Dispatch ==
    \E c \in RRCpus :
        /\ curr[c] = NULL \/ resched[c]
        /\ Len(picks) < MaxPicks
        /\ ScheduleOp(c)
        /\ picks' = Append(picks, pick_next_task_wrr(c, curr[c]))
        /\ Called("pick_next", c, curr[c], "0")
        /\ UNCHANGED nticks

\* N tasks, 1 <= N <= NR_TASKS, are queued on CPU 0 in the order 1 .. N with
\* a full slice each; the others stay detached.
InitRR ==
    \E n \in 1 .. NR_TASKS :
        /\ weight \in [Tasks -> TickWeights]
        /\ \A p \in Tasks : p > n => weight[p] = 1
        /\ queue = [c \in CPUs |-> IF c = 0 THEN [i \in 1 .. n |-> i] ELSE <<>>]
        /\ nr_running = [c \in CPUs |-> IF c = 0 THEN n ELSE 0]
        /\ total_weight = [c \in CPUs |-> SumWeights(queue[c])]
        /\ rq_nr_running = [c \in CPUs |-> IF c = 0 THEN n ELSE 0]
        /\ on_rq = [p \in Tasks |-> IF p <= n THEN 1 ELSE 0]
        /\ curr = [c \in CPUs |-> NULL]
        /\ resched = [c \in CPUs |-> FALSE]
        /\ lock = [c \in CPUs |-> "free"]
        /\ time_slice = [p \in Tasks |-> weight[p] * WRR_TIMESLICE]
        /\ task_cpu = [p \in Tasks |-> 0]
        /\ cpus_allowed = [p \in Tasks |-> CPUs]
        /\ lb = LbIdle
        /\ InitSoftirq
        /\ last = NoCall
        /\ picks = <<>>
        /\ nticks = [p \in Tasks |-> 0]

NextRR == Dispatch \/ Tick

SpecRR == InitRR /\ [][NextRR]_vars

\* ------------------------------------------------------- load_balance_wrr
\* lb.pc is the position in load_balance_wrr: "idle" (not running), "read"
\* (in the loop over the online CPUs, about to read lb.cpu), "check" (at the
\* max_cpu == min_cpu test), "lock1" and "lock2" (in double_rq_lock, which
\* takes the lock of the lower runqueue first), "select" (before the
\* candidate loop), "unlock" (after it, both locks held).
lb_compare_or_equal(l, cpu, weight_sum) ==
    IF l.max_cpu = NO_CPU
    THEN [l EXCEPT !.max_cpu = cpu, !.min_cpu = cpu,
                   !.max_weight_sum = weight_sum, !.min_weight_sum = weight_sum]
    ELSE IF weight_sum >= l.max_weight_sum
    THEN [l EXCEPT !.max_cpu = cpu, !.max_weight_sum = weight_sum]
    ELSE IF weight_sum <= l.min_weight_sum
    THEN [l EXCEPT !.min_cpu = cpu, !.min_weight_sum = weight_sum]
    ELSE l

lb_compare(l, cpu, weight_sum) ==
    IF l.max_cpu = NO_CPU
    THEN [l EXCEPT !.max_cpu = cpu, !.min_cpu = cpu,
                   !.max_weight_sum = weight_sum, !.min_weight_sum = weight_sum]
    ELSE IF weight_sum > l.max_weight_sum
    THEN [l EXCEPT !.max_cpu = cpu, !.max_weight_sum = weight_sum]
    ELSE IF weight_sum < l.min_weight_sum
    THEN [l EXCEPT !.min_cpu = cpu, !.min_weight_sum = weight_sum]
    ELSE l

\* The three tests of the candidate loop, each a reason to skip the entity.
never_curr(p) == FALSE

is_curr(p) == p = curr[lb.max_cpu]

inverts(p) ==
    lb.min_weight_sum + weight[p] >= lb.max_weight_sum - weight[p]

not_allowed(p) == lb.min_cpu \notin cpus_allowed[p]

\* The candidate loop over the entities of max_cpu in queue order, from the
\* running values of max_weight and wrr_se_max.
RECURSIVE lb_select_or_equal(_, _, _)
lb_select_or_equal(q, max_weight, wrr_se_max) ==
    IF q = <<>> THEN wrr_se_max
    ELSE IF weight[Head(q)] >= max_weight
            /\ ~is_curr(Head(q)) /\ ~inverts(Head(q)) /\ ~not_allowed(Head(q))
    THEN lb_select_or_equal(Tail(q), weight[Head(q)], Head(q))
    ELSE lb_select_or_equal(Tail(q), max_weight, wrr_se_max)

RECURSIVE lb_select(_, _, _)
lb_select(q, max_weight, wrr_se_max) ==
    IF q = <<>> THEN wrr_se_max
    ELSE IF weight[Head(q)] > max_weight
            /\ ~is_curr(Head(q)) /\ ~inverts(Head(q)) /\ ~not_allowed(Head(q))
    THEN lb_select(Tail(q), weight[Head(q)], Head(q))
    ELSE lb_select(Tail(q), max_weight, wrr_se_max)

LowCpu == IF lb.max_cpu < lb.min_cpu THEN lb.max_cpu ELSE lb.min_cpu

HighCpu == IF lb.max_cpu < lb.min_cpu THEN lb.min_cpu ELSE lb.max_cpu

LBFrame == UNCHANGED <<queue, nr_running, total_weight, rq_nr_running, on_rq,
                       curr, resched, time_slice, taskvars, softirqvars,
                       obsvars>>

LBStart ==
    /\ lb.pc = "idle"
    /\ lb' = [LbIdle EXCEPT !.pc = "read", !.cpu = 0,
                            !.next_balance = jiffies + BalancePeriod]
    /\ UNCHANGED lock
    /\ LBFrame

\* One round of the loop over the online CPUs: the entities of the CPU are
\* summed, rq_unlock(rq) releases the lock of the CPU (no lock was taken),
\* and the sum is compared with the running maximum and minimum.
LBRead ==
    /\ lb.pc = "read"
    /\ lock' = [lock EXCEPT ![lb.cpu] = "free"]
    /\ lb' = [lb_compare(lb, lb.cpu, SumWeights(queue[lb.cpu])) EXCEPT
                 !.cpu = IF lb.cpu + 1 \in CPUs THEN lb.cpu + 1 ELSE NO_CPU,
                 !.pc = IF lb.cpu + 1 \in CPUs THEN "read" ELSE "check"]
    /\ LBFrame

LBCheck ==
    /\ lb.pc = "check"
    /\ lb' = IF lb.max_cpu = lb.min_cpu THEN LbIdle ELSE [lb EXCEPT !.pc = "lock1"]
    /\ UNCHANGED lock
    /\ LBFrame

LBLock1 ==
    /\ lb.pc = "lock1"
    /\ lock[LowCpu] = "free"
    /\ lock' = [lock EXCEPT ![LowCpu] = "lb"]
    /\ lb' = [lb EXCEPT !.pc = "lock2"]
    /\ LBFrame

LBLock2 ==
    /\ lb.pc = "lock2"
    /\ lock[HighCpu] = "free"
    /\ lock' = [lock EXCEPT ![HighCpu] = "lb"]
    /\ lb' = [lb EXCEPT !.pc = "select"]
    /\ LBFrame

LBSelect ==
    /\ lb.pc = "select"
    /\ lb' = [lb EXCEPT !.pc = "unlock",
                        !.wrr_se_max = lb_select(queue[lb.max_cpu], -1, NULL)]
    /\ UNCHANGED lock
    /\ LBFrame

LBUnlock_min_only ==
    /\ lb.pc = "unlock"
    /\ lock' = [lock EXCEPT ![lb.min_cpu] = "free"]
    /\ lb' = LbIdle
    /\ LBFrame

\* Both exits after the candidate loop: with no candidate, and with one,
\* where the migration itself is still to be written (LB_TODO: migrate).
\* Each releases both locks and returns.
LBUnlock ==
    /\ lb.pc = "unlock"
    /\ lock' = [lock EXCEPT ![lb.max_cpu] = "free", ![lb.min_cpu] = "free"]
    /\ lb' = LbIdle
    /\ LBFrame

\* The CPUs' local operations run between the steps of the balancer.
LBEnqueue == \E p \in LBTasks : EnqueueOp(p, "0") /\ UNCHANGED obsvars

LBDequeue == \E p \in LBTasks : DequeueOp(p) /\ UNCHANGED obsvars

LBSchedule == \E c \in CPUs : ScheduleOp(c) /\ UNCHANGED obsvars

\* The tasks are of weight 3, 1, 3, ... and on any CPU; at most one of them
\* is pinned to its CPU, the others are allowed everywhere.
InitLB ==
    /\ InitRq
    /\ weight = [p \in Tasks |-> LBWeight(p)]
    /\ time_slice = [p \in Tasks |-> weight[p] * WRR_TIMESLICE]
    /\ task_cpu \in [Tasks -> CPUs]
    /\ \A p \in Tasks \ LBTasks : task_cpu[p] = 0
    /\ \E pinned \in LBTasks \cup {NULL} :
           cpus_allowed = [p \in Tasks |->
                              IF p = pinned THEN {task_cpu[p]} ELSE CPUs]

NextLB ==
    \/ LBEnqueue \/ LBDequeue \/ LBSchedule
    \/ LBStart \/ LBRead \/ LBCheck \/ LBLock1 \/ LBLock2 \/ LBSelect \/ LBUnlock

SpecLB == InitLB /\ [][NextLB]_vars

\* ----------------------------------------------------- select_task_rq_wrr
\* unsigned int values are held as 32-bit patterns read as two's-complement
\* numbers: UINT_MAX and (unsigned int) -1 are the pattern -1, and the value
\* returned as int is the pattern itself.  a < b between unsigned values:
UINT_MAX == -1

unsigned_le(a, b) ==
    IF (a >= 0) = (b >= 0) THEN a <= b ELSE a >= 0

unsigned_lt(a, b) ==
    IF (a >= 0) = (b >= 0) THEN a < b ELSE a >= 0

\* The loop over the online CPUs in index order, from CPU cpu on, with the
\* running values of min_cpu_index and min_total_weight.
RECURSIVE select_loop(_, _, _, _)
select_loop(p, cpu, min_cpu_index, min_total_weight) ==
    IF cpu \notin CPUs THEN min_cpu_index
    ELSE IF cpu \in cpus_allowed[p]
            /\ unsigned_lt(total_weight[cpu], min_total_weight)
    THEN select_loop(p, cpu + 1, cpu, total_weight[cpu])
    ELSE select_loop(p, cpu + 1, min_cpu_index, min_total_weight)

select_task_rq_wrr(p) == select_loop(p, 0, UINT_MAX, UINT_MAX)

\* A wake-up or fork asks for the CPU of task p; last.cpu is the answer.
Select ==
    \E p \in Tasks :
        /\ Called("select", select_task_rq_wrr(p), p, "0")
        /\ UNCHANGED <<rqvars, curr, resched, lock, time_slice, taskvars,
                       softirqvars, lb, picks, nticks>>

\* The tasks are on any CPU; the affinity mask of task 1 is any set of CPUs,
\* the empty one included, the other tasks are allowed everywhere.
InitSel ==
    /\ InitRq
    /\ weight = [p \in Tasks |-> LBWeight(p)]
    /\ time_slice = [p \in Tasks |-> weight[p] * WRR_TIMESLICE]
    /\ task_cpu \in [Tasks -> CPUs]
    /\ \E mask \in SUBSET CPUs :
           cpus_allowed = [p \in Tasks |-> IF p = 1 THEN mask ELSE CPUs]

NextSel == Enqueue \/ Dequeue \/ Select

SpecSel == InitSel /\ [][NextSel]_vars

\* ------------------------------------------- dec_wrr_tasks, counters lost
\* nr_running and total_weight are unsigned fields, held as 32-bit patterns
\* read as two's-complement numbers: a negative value is a wrapped counter.
\* dec_wrr_tasks is reached with nr_running = 0 or total_weight = 0 only
\* when the counters have fallen behind the list, which the WARN_ONs watch
\* for.  N tasks are linked on CPU 0 in the order 1 .. N; the counters are
\* anywhere from 0 to the values the list stands for.
InitDec ==
    \E n \in 1 .. NR_TASKS :
        /\ weight \in [Tasks -> Weights]
        /\ queue = [c \in CPUs |-> IF c = 0 THEN [i \in 1 .. n |-> i] ELSE <<>>]
        /\ nr_running \in [CPUs -> 0 .. n]
        /\ total_weight \in [CPUs -> 0 .. SumWeights(queue[0])]
        /\ \A c \in CPUs \ {0} : nr_running[c] = 0 /\ total_weight[c] = 0
        /\ rq_nr_running = [c \in CPUs |-> IF c = 0 THEN n ELSE 0]
        /\ on_rq = [p \in Tasks |-> IF p <= n THEN 1 ELSE 0]
        /\ curr = [c \in CPUs |-> NULL]
        /\ resched = [c \in CPUs |-> FALSE]
        /\ lock = [c \in CPUs |-> "free"]
        /\ time_slice = [p \in Tasks |-> weight[p] * WRR_TIMESLICE]
        /\ task_cpu = [p \in Tasks |-> 0]
        /\ cpus_allowed = [p \in Tasks |-> CPUs]
        /\ lb = LbIdle
        /\ InitSoftirq
        /\ last = NoCall
        /\ picks = <<>>
        /\ nticks = [p \in Tasks |-> 0]

NextDec == Dequeue \/ Enqueue

SpecDec == InitDec /\ [][NextDec]_vars

\* ------------------------------------------- every operation on every CPU
\* The timer tick of any CPU, without the observers.
TickOp(c) ==
    /\ lock[c] = "free"
    /\ curr[c] # NULL
    /\ ~resched[c]
    /\ task_tick_wrr(c, curr[c])
    /\ UNCHANGED <<nr_running, total_weight, rq_nr_running, on_rq, curr, lock,
                   taskvars, softirqvars, lb>>

AllTick == \E c \in CPUs : TickOp(c) /\ UNCHANGED obsvars

AllYield == \E c \in CPUs : YieldOp(c) /\ UNCHANGED obsvars

AllPutPrev == \E c \in CPUs : PutPrevOp(c) /\ UNCHANGED obsvars

\* Enqueue, dequeue, requeue, yield, tick and pick_next on all CPUs, between
\* the steps of a balancer pass.
NextAll ==
    \/ LBEnqueue \/ LBDequeue \/ LBSchedule \/ AllYield \/ AllPutPrev \/ AllTick
    \/ LBStart \/ LBRead \/ LBCheck \/ LBLock1 \/ LBLock2 \/ LBSelect \/ LBUnlock

\* The tasks are of weight 1 and allowed everywhere; task 1 is on any CPU,
\* the others are on CPU 0.
InitAll ==
    /\ InitRq
    /\ weight = [p \in Tasks |-> 1]
    /\ time_slice = [p \in Tasks |-> weight[p] * WRR_TIMESLICE]
    /\ task_cpu \in [Tasks -> CPUs]
    /\ \A p \in Tasks \ {1} : task_cpu[p] = 0
    /\ cpus_allowed = [p \in Tasks |-> CPUs]

SpecAll == InitAll /\ [][NextAll]_vars

\* ------------------------------------------------- one balancer pass alone
\* A pass that runs with no local operation between its steps, from any
\* placement of the tasks: tasks 1 .. N are linked on their CPUs in the order
\* of their numbers, any of them may be the running task of its CPU, and
\* task 1 may be pinned to its CPU.
InitPass ==
    \E n \in 0 .. NR_TASKS, running \in Tasks \cup {NULL}, pinned \in {1, NULL} :
        /\ weight \in [Tasks -> Weights]
        /\ task_cpu \in [Tasks -> CPUs]
        /\ \A p \in Tasks : p > n => weight[p] = 1 /\ task_cpu[p] = 0
        /\ running # NULL => running <= n
        /\ queue = [c \in CPUs |->
                       SelectSeq([i \in 1 .. n |-> i], LAMBDA p : task_cpu[p] = c)]
        /\ nr_running = [c \in CPUs |-> Len(queue[c])]
        /\ total_weight = [c \in CPUs |-> SumWeights(queue[c])]
        /\ rq_nr_running = [c \in CPUs |-> Len(queue[c])]
        /\ on_rq = [p \in Tasks |-> IF p <= n THEN 1 ELSE 0]
        /\ curr = [c \in CPUs |->
                      IF running # NULL /\ task_cpu[running] = c
                      THEN running ELSE NULL]
        /\ resched = [c \in CPUs |-> FALSE]
        /\ lock = [c \in CPUs |-> "free"]
        /\ time_slice = [p \in Tasks |-> weight[p] * WRR_TIMESLICE]
        /\ cpus_allowed = [p \in Tasks |->
                              IF p = pinned THEN {task_cpu[p]} ELSE CPUs]
        /\ lb = LbIdle
        /\ InitSoftirq
        /\ last = NoCall
        /\ picks = <<>>
        /\ nticks = [p \in Tasks |-> 0]

NextPass ==
    LBStart \/ LBRead \/ LBCheck \/ LBLock1 \/ LBLock2 \/ LBSelect \/ LBUnlock

SpecPass == InitPass /\ [][NextPass]_vars

\* -------------------------------------------- task_tick_wrr from any slice
\* As InitRR, but the first task starts with any slice from 1 up to its full
\* slice, as a task whose slice has partly run down.
InitSlice ==
    \E n \in 1 .. NR_TASKS :
        /\ weight \in [Tasks -> Weights]
        /\ \A p \in Tasks : p > n => weight[p] = 1
        /\ queue = [c \in CPUs |-> IF c = 0 THEN [i \in 1 .. n |-> i] ELSE <<>>]
        /\ nr_running = [c \in CPUs |-> IF c = 0 THEN n ELSE 0]
        /\ total_weight = [c \in CPUs |-> SumWeights(queue[c])]
        /\ rq_nr_running = [c \in CPUs |-> IF c = 0 THEN n ELSE 0]
        /\ on_rq = [p \in Tasks |-> IF p <= n THEN 1 ELSE 0]
        /\ curr = [c \in CPUs |-> NULL]
        /\ resched = [c \in CPUs |-> FALSE]
        /\ lock = [c \in CPUs |-> "free"]
        /\ time_slice \in [Tasks -> 1 .. 3 * WRR_TIMESLICE]
        /\ \A p \in Tasks :
               IF p = 1 THEN time_slice[p] <= weight[p] * WRR_TIMESLICE
               ELSE time_slice[p] = weight[p] * WRR_TIMESLICE
        /\ task_cpu = [p \in Tasks |-> 0]
        /\ cpus_allowed = [p \in Tasks |-> CPUs]
        /\ lb = LbIdle
        /\ InitSoftirq
        /\ last = NoCall
        /\ picks = <<>>
        /\ nticks = [p \in Tasks |-> 0]

\* Ticks are followed while the slice of the running task is in its range.
TickInRange ==
    /\ \A c \in RRCpus :
           curr[c] # NULL =>
               time_slice[curr[c]] \in 1 .. weight[curr[c]] * WRR_TIMESLICE
    /\ Tick

NextSlice == Dispatch \/ TickInRange

SpecSlice == InitSlice /\ [][NextSlice]_vars

\* --------------------------------------------- trigger_load_balance_wrr
\* The timer tick counts jiffies and calls trigger_load_balance_wrr, which
\* raises the softirq when jiffies has reached rq->next_balance_wrr.
trigger_load_balance_wrr(now) == softirq \/ now >= next_balance_wrr

TimerTick ==
    /\ jiffies < MaxJiffies
    /\ jiffies' = jiffies + 1
    /\ softirq' = trigger_load_balance_wrr(jiffies + 1)
    /\ UNCHANGED <<rqvars, curr, resched, lock, time_slice, taskvars, lb,
                   lb_other, next_balance_wrr, obsvars>>

\* The raised softirq runs run_load_balance_wrr, which starts a pass; the
\* later steps of the pass are those of load_balance_wrr above.  The local
\* next_balance is computed at the start and stored nowhere.
run_load_balance_wrr ==
    /\ softirq
    /\ lb.pc = "idle"
    /\ softirq' = FALSE
    /\ lb' = [LbIdle EXCEPT !.pc = "read", !.cpu = 0,
                            !.next_balance = jiffies + BalancePeriod]
    /\ UNCHANGED <<rqvars, curr, resched, lock, time_slice, taskvars,
                   lb_other, jiffies, next_balance_wrr, obsvars>>

\* Tasks 1 .. N are linked on CPU 0; the first deadline is anywhere within
\* the first period.
InitTimer ==
    \E n \in 0 .. NR_TASKS :
        /\ weight \in [Tasks -> Weights]
        /\ \A p \in Tasks : p > n => weight[p] = 1
        /\ queue = [c \in CPUs |-> IF c = 0 THEN [i \in 1 .. n |-> i] ELSE <<>>]
        /\ nr_running = [c \in CPUs |-> IF c = 0 THEN n ELSE 0]
        /\ total_weight = [c \in CPUs |-> SumWeights(queue[c])]
        /\ rq_nr_running = [c \in CPUs |-> IF c = 0 THEN n ELSE 0]
        /\ on_rq = [p \in Tasks |-> IF p <= n THEN 1 ELSE 0]
        /\ curr = [c \in CPUs |-> NULL]
        /\ resched = [c \in CPUs |-> FALSE]
        /\ lock = [c \in CPUs |-> "free"]
        /\ time_slice = [p \in Tasks |-> weight[p] * WRR_TIMESLICE]
        /\ task_cpu = [p \in Tasks |-> 0]
        /\ cpus_allowed = [p \in Tasks |-> CPUs]
        /\ lb = LbIdle
        /\ lb_other = LbIdle
        /\ jiffies = 0
        /\ next_balance_wrr \in 0 .. BalancePeriod
        /\ softirq = FALSE
        /\ last = NoCall
        /\ picks = <<>>
        /\ nticks = [p \in Tasks |-> 0]

NextTimer ==
    \/ TimerTick \/ run_load_balance_wrr
    \/ LBRead \/ LBCheck \/ LBLock1 \/ LBLock2 \/ LBSelect \/ LBUnlock

SpecTimer == InitTimer /\ [][NextTimer]_vars

\* ------------------------------------------------ two passes at a time
\* The softirq runs on every CPU, so a second pass of load_balance_wrr may
\* be under way on another CPU.  lb is the pass that takes the next step and
\* lb_other the one that is not running at the moment; when the other CPU
\* runs, the two change places, and so do their names as lock holders.
OtherCpuRuns ==
    /\ lb' = lb_other
    /\ lb_other' = lb
    /\ lock' = [c \in CPUs |->
                   IF lock[c] = "lb" THEN "other"
                   ELSE IF lock[c] = "other" THEN "lb" ELSE "free"]
    /\ UNCHANGED <<rqvars, curr, resched, time_slice, taskvars, jiffies,
                   next_balance_wrr, softirq, obsvars>>

NextLB2 == NextLB \/ OtherCpuRuns

\* Task p is on CPU (p - 1) % NR_CPUS and allowed everywhere, so that the
\* heavier CPU changes as the tasks come and go.
InitLB2 ==
    /\ InitRq
    /\ weight = [p \in Tasks |-> LBWeight(p)]
    /\ time_slice = [p \in Tasks |-> weight[p] * WRR_TIMESLICE]
    /\ task_cpu = [p \in Tasks |-> (p - 1) % NR_CPUS]
    /\ cpus_allowed = [p \in Tasks |-> CPUs]

SpecLB2 == InitLB2 /\ [][NextLB2]_vars

\* ------------------------------------------------------------------ claims
\* C1: after every enqueue or dequeue on a run queue (repeated ones
\* included) total_weight is the sum of the weights of the linked entities
\* and nr_running is their number.
C1_CountersMatchQueue ==
    \A c \in CPUs :
        /\ total_weight[c] = SumWeights(queue[c])
        /\ nr_running[c] = Len(queue[c])

\* A repeated dequeue of a detached task has just run while a weight-3 and a
\* weight-1 task stay linked.
C1_Witness ==
    /\ last.op = "dequeue" /\ last.rep = 2
    /\ Len(queue[0]) = 2
    /\ total_weight[0] = 4

\* C8: a dequeue that directly follows a dequeue of the same task changes
\* neither the queue order, nr_running, total_weight, the runqueue's
\* nr_running nor on_rq.
C8_DequeueIdempotent ==
    [][(last'.op = "dequeue" /\ last'.rep = 2) => UNCHANGED rqvars]_vars

\* The second of two dequeues of a task has run, other tasks being queued.
C8_Witness ==
    /\ last.op = "dequeue" /\ last.rep = 2
    /\ on_rq[last.task] = 0
    /\ queue[0] # <<>>

\* C9: requeue and yield leave a queued entity last in the queue, the others
\* in their order and the counters alone; requeue of an entity that is not
\* queued changes nothing.
C9_RequeueToTail ==
    [][(last'.op \in {"requeue", "yield"}) =>
         LET c == last'.cpu
             p == last'.task
         IN  IF on_rq[p] = 1
             THEN /\ queue'[c] = Append(list_del_init(queue[c], p), p)
                  /\ UNCHANGED <<nr_running, total_weight, rq_nr_running, on_rq>>
             ELSE UNCHANGED rqvars]_vars

\* C10 as stated: enqueue of a detached entity puts it last by default and
\* first when flags asks for head placement, count and total_weight rising
\* by 1 and by the weight.
C10_EnqueueHonoursPlacement ==
    [][(last'.op = "enqueue" /\ on_rq[last'.task] = 0) =>
         LET c == last'.cpu
             p == last'.task
         IN  /\ queue'[c] = IF last'.arg = "ENQUEUE_HEAD"
                             THEN <<p>> \o queue[c]
                             ELSE Append(queue[c], p)
             /\ nr_running'[c] = nr_running[c] + 1
             /\ total_weight'[c] = total_weight[c] + weight[p]]_vars

\* C10 amended: enqueue of a detached entity puts it last whatever flags
\* holds, count and total_weight rising by 1 and by the weight.
C10_EnqueueAlwaysTail ==
    [][(last'.op = "enqueue" /\ on_rq[last'.task] = 0) =>
         LET c == last'.cpu
             p == last'.task
         IN  /\ queue'[c] = Append(queue[c], p)
             /\ nr_running'[c] = nr_running[c] + 1
             /\ total_weight'[c] = total_weight[c] + weight[p]]_vars

\* A task enqueued with ENQUEUE_HEAD sits last behind two others.
C10_Witness ==
    /\ last.op = "enqueue" /\ last.arg = "ENQUEUE_HEAD" /\ last.rep = 1
    /\ Len(queue[last.cpu]) = 3
    /\ queue[last.cpu][3] = last.task
    /\ nr_running[last.cpu] = 3

\* C2: with N >= 2 queued tasks of equal weight, every N consecutive picks
\* return each of the N tasks exactly once.
C2_RoundRobin ==
    LET q == queue[0]
        N == Len(q)
    IN  (N >= 2 /\ \A i, j \in 1 .. N : weight[q[i]] = weight[q[j]]) =>
            \A i \in 1 .. (Len(picks) - N + 1) :
                {picks[j] : j \in i .. (i + N - 1)} = {q[k] : k \in 1 .. N}

\* C3: a tick of a running task, another task being queued, either takes
\* exactly one from time_slice or, on expiry, is the (weight x 10)-th tick of
\* the slice, which resets the slice, requeues and asks for a reschedule.
C3_WeightProportional ==
    [][(last'.op = "tick" /\ Len(queue[last'.cpu]) >= 2) =>
         LET c == last'.cpu
             p == last'.task
         IN  IF last'.arg = "expired"
             THEN /\ last'.n = weight[p] * WRR_TIMESLICE
                  /\ time_slice'[p] = weight[p] * WRR_TIMESLICE
                  /\ resched'[c]
             ELSE time_slice'[p] = time_slice[p] - 1]_vars

\* C4: a tick of the only queued task changes neither the queue nor the
\* reschedule request, and on expiry it sets time_slice to weight x 10.
C4_SingleRunnable ==
    [][(last'.op = "tick" /\ queue[last'.cpu] = <<last'.task>>) =>
         /\ queue' = queue
         /\ resched' = resched
         /\ (last'.arg = "expired" =>
                time_slice'[last'.task] = weight[last'.task] * WRR_TIMESLICE)
         /\ UNCHANGED <<nr_running, total_weight, curr>>]_vars

\* The slice of the only queued task, of weight 5, has just expired.
C4_Witness ==
    /\ last.op = "tick" /\ last.arg = "expired"
    /\ queue[last.cpu] = <<last.task>>
    /\ weight[last.task] = 5
    /\ time_slice[last.task] = 5 * WRR_TIMESLICE
    /\ ~resched[last.cpu]
    /\ curr[last.cpu] = last.task

\* C5: the task running on max_cpu when the candidate is selected is never
\* the candidate; both locks being held from the selection to the unlock,
\* this is stated of every state in between.
C5_CurrNotCandidate ==
    (lb.pc = "unlock" /\ lb.wrr_se_max # NULL) =>
        lb.wrr_se_max # curr[lb.max_cpu]

\* A candidate has been selected on a max_cpu whose running task is linked
\* in its queue.
C5_Witness ==
    /\ lb.pc = "unlock" /\ lb.wrr_se_max # NULL
    /\ curr[lb.max_cpu] # NULL
    /\ Linked(queue[lb.max_cpu], curr[lb.max_cpu])

\* C6: a pass that found a candidate ends with the candidate unlinked from
\* max_cpu's queue and last in min_cpu's queue, the counters of both queues
\* following.
C6_CandidateMigrated ==
    [][(lb.pc = "unlock" /\ lb'.pc = "idle" /\ lb.wrr_se_max # NULL) =>
         /\ ~Linked(queue'[lb.max_cpu], lb.wrr_se_max)
         /\ queue'[lb.min_cpu] # <<>>
         /\ queue'[lb.min_cpu][Len(queue'[lb.min_cpu])] = lb.wrr_se_max
         /\ \A c \in {lb.max_cpu, lb.min_cpu} :
                /\ nr_running'[c] = Len(queue'[c])
                /\ total_weight'[c] = SumWeights(queue'[c])]_vars

\* C7: whenever a candidate of weight w is selected, min_cpu's total_weight
\* plus w is below max_cpu's total_weight minus w, for the totals the two
\* queues have while both locks are held.
C7_AntiInversionActual ==
    (lb.pc = "unlock" /\ lb.wrr_se_max # NULL) =>
        total_weight[lb.min_cpu] + weight[lb.wrr_se_max]
            < total_weight[lb.max_cpu] - weight[lb.wrr_se_max]

\* C11 as stated: pick_next_task_wrr returns the entity at the head of the
\* run queue (none for an empty queue) and only selects: the queue order, the
\* entity count and total_weight are the same after the call as before it,
\* whatever the queue and the previous task are.
C11_PickSelectsOnly ==
    [][(last'.op = "pick_next") =>
          LET c == last'.cpu IN
          /\ curr'[c] = IF queue[c] = <<>> THEN NULL ELSE queue[c][1]
          /\ queue' = queue
          /\ UNCHANGED <<nr_running, total_weight>>]_vars

\* C11 amended: pick_next_task_wrr first hands prev to put_prev_task, which
\* requeues a queued prev inside its run queue, and returns the entity that
\* is first afterwards (none for an empty queue).  The counters, the set of
\* linked entities and the order of the entities other than prev are the
\* same after the call as before it, and the whole queue is when prev is no
\* queued entity.
C11_PickAfterPutPrev ==
    [][(last'.op = "pick_next") =>
          LET c == last'.cpu
              prev == last'.task
          IN  /\ curr'[c] = IF queue'[c] = <<>> THEN NULL ELSE queue'[c][1]
              /\ UNCHANGED <<nr_running, total_weight, rq_nr_running, on_rq>>
              /\ \A d \in CPUs \ {c} : queue'[d] = queue[d]
              /\ Len(queue'[c]) = Len(queue[c])
              /\ list_del_init(queue'[c], prev) = list_del_init(queue[c], prev)
              /\ (prev = NULL \/ on_rq[prev] = 0) => queue' = queue]_vars

\* A pick has run with a queued previous task on a queue of three, and the
\* picked entity is the one first in the queue.
C11_Witness ==
    /\ last.op = "pick_next"
    /\ last.task # NULL
    /\ on_rq[last.task] = 1
    /\ Len(queue[last.cpu]) = 3
    /\ curr[last.cpu] = Head(queue[last.cpu])

\* C12: select_task_rq_wrr returns, among the online CPUs in the affinity
\* mask of the task, the one of smallest total_weight, the lowest index among
\* equals, and -1 when the mask holds no online CPU.
C12_SelectLightest ==
    (last.op = "select") =>
        LET p == last.task
            ok == cpus_allowed[p] \cap CPUs
        IN  IF ok = {} THEN last.cpu = -1
            ELSE /\ last.cpu \in ok
                 /\ \A c \in ok :
                        /\ total_weight[last.cpu] <= total_weight[c]
                        /\ total_weight[c] = total_weight[last.cpu]
                               => last.cpu <= c

\* Both CPUs carry weight 3 and the task is allowed on both: CPU 0 is chosen.
C12_Witness ==
    /\ last.op = "select"
    /\ cpus_allowed[last.task] = CPUs
    /\ \A c \in CPUs : total_weight[c] = 3
    /\ last.cpu = 0

LinkCount(p) ==
    Cardinality({ci \in CPUs \X (1 .. NR_TASKS) :
                    ci[2] <= Len(queue[ci[1]]) /\ queue[ci[1]][ci[2]] = p})

C14_QueuedIffLinkedOnce ==
    \A p \in Tasks :
        /\ Len(queue[task_cpu[p]]) <= NR_TASKS
        /\ LinkCount(p) <= 1
        /\ on_rq[p] = 1 <=> LinkCount(p) = 1
        /\ on_rq[p] = 1 => Linked(queue[task_cpu[p]], p)

\* A tick has expired the slice of the running task and requeued it beside
\* another linked entity, while a balancer pass holds both locks.
C14_Witness ==
    \E c \in CPUs :
        /\ resched[c]
        /\ Len(queue[c]) = 2
        /\ \A i \in 1 .. 2 : on_rq[queue[c][i]] = 1
        /\ lb.pc = "unlock"

\* C15: after the candidate loop the chosen entity is, among the entities
\* linked on max_cpu that are not the running task of max_cpu, whose move
\* would leave min_cpu lighter than max_cpu and that are allowed on min_cpu,
\* one of the greatest weight, the earliest in the queue among those; it is
\* none exactly when there is no such entity, and then the pass returns with
\* every queue and counter as it was.
Eligible(p) ==
    /\ Linked(queue[lb.max_cpu], p)
    /\ p # curr[lb.max_cpu]
    /\ total_weight[lb.min_cpu] + weight[p] < total_weight[lb.max_cpu] - weight[p]
    /\ lb.min_cpu \in cpus_allowed[p]

C15_HeaviestFirst ==
    [][(lb.pc = "unlock") =>
          LET q == queue[lb.max_cpu]
              sel == lb.wrr_se_max
          IN  IF \A p \in Tasks : ~Eligible(p)
              THEN /\ sel = NULL
                   /\ lb'.pc = "idle"
                   /\ UNCHANGED <<rqvars, curr, resched, time_slice, taskvars>>
              ELSE /\ sel # NULL
                   /\ Eligible(sel)
                   /\ \A p \in Tasks :
                          Eligible(p) =>
                              /\ weight[p] <= weight[sel]
                              /\ weight[p] = weight[sel]
                                     => PosOf(q, sel) <= PosOf(q, p)]_vars

\* Three entities of weight 1, 3, 3 are linked on max_cpu in this order, all
\* eligible, and the first of the two heavy ones has been chosen.
C15_Witness ==
    /\ lb.pc = "unlock"
    /\ queue[lb.max_cpu] = <<1, 2, 3>>
    /\ weight = [p \in Tasks |-> IF p = 1 THEN 1 ELSE 3]
    /\ \A p \in Tasks : Eligible(p)
    /\ lb.wrr_se_max = 2

\* C16: when the loop over the online CPUs is done, max_cpu is the lowest
\* CPU whose weight sum is the greatest and min_cpu the lowest CPU whose sum
\* is the smallest; they are the same CPU exactly when all sums are equal,
\* and then the pass returns with every queue, counter and entity as it was.
WeightSum(c) == SumWeights(queue[c])

C16_MaxMinCores ==
    [][(lb.pc = "check") =>
          /\ \A c \in CPUs :
                 /\ WeightSum(c) <= WeightSum(lb.max_cpu)
                 /\ WeightSum(c) = WeightSum(lb.max_cpu) => lb.max_cpu <= c
                 /\ WeightSum(c) >= WeightSum(lb.min_cpu)
                 /\ WeightSum(c) = WeightSum(lb.min_cpu) => lb.min_cpu <= c
          /\ lb.max_cpu = lb.min_cpu
                 <=> \A c, d \in CPUs : WeightSum(c) = WeightSum(d)
          /\ lb.max_cpu = lb.min_cpu =>
                 /\ lb'.pc = "idle"
                 /\ UNCHANGED <<rqvars, curr, resched, time_slice, taskvars>>]_vars

\* The read phase has ended with the same nonzero sum on every CPU.
C16_Witness ==
    /\ lb.pc = "check"
    /\ lb.max_cpu = lb.min_cpu
    /\ \A c \in CPUs : WeightSum(c) = 3 /\ Len(queue[c]) >= 1

\* C17: in the loop over the online CPUs the balancer reads the run queue of
\* a CPU while it holds the lock of that CPU and of no other CPU, and the
\* release that follows the read frees a lock it holds.
C17_ReadUnderLock ==
    [][(lb.pc = "read" /\ lb' # lb) =>
          /\ lock[lb.cpu] = "lb"
          /\ \A c \in CPUs \ {lb.cpu} : lock[c] # "lb"
          /\ lock'[lb.cpu] = "free"]_vars

C18_DeadlineMoved ==
    [][(lb.pc # "idle" /\ lb'.pc = "idle") =>
          /\ next_balance_wrr' >= lb.next_balance
          /\ next_balance_wrr' > jiffies]_vars

\* C20: with two balancer passes and the local operations interleaved, no
\* pass holds a run-queue lock before it has entered double_rq_lock or after
\* it has returned, and a pass that waits for a lock waits for one held by
\* the other pass, which itself is not waiting: there is no cyclic wait and
\* a blocked pass is always unblocked by a pass that can run on to its
\* unlock.
LowOf(l) == IF l.max_cpu < l.min_cpu THEN l.max_cpu ELSE l.min_cpu

HighOf(l) == IF l.max_cpu < l.min_cpu THEN l.min_cpu ELSE l.max_cpu

WaitsFor(l) ==
    IF l.pc = "lock1" /\ lock[LowOf(l)] # "free" THEN LowOf(l)
    ELSE IF l.pc = "lock2" /\ lock[HighOf(l)] # "free" THEN HighOf(l)
    ELSE NO_CPU

PassSafe(x, tagx, y, tagy) ==
    /\ x.pc \in {"idle", "read", "check", "lock1"}
           => \A c \in CPUs : lock[c] # tagx
    /\ WaitsFor(x) # NO_CPU =>
           /\ lock[WaitsFor(x)] = tagy
           /\ y.pc \in {"lock2", "select", "unlock"}
           /\ WaitsFor(y) = NO_CPU

C20_NoCyclicWait ==
    /\ PassSafe(lb, "lb", lb_other, "other")
    /\ PassSafe(lb_other, "other", lb, "lb")

\* One pass waits in double_rq_lock for the lock of the higher CPU while the
\* other pass, which took max_cpu and min_cpu the other way round, holds it.
C20_Witness ==
    /\ lb.pc = "lock2"
    /\ WaitsFor(lb) = HighOf(lb)
    /\ lb_other.pc \in {"select", "unlock"}
    /\ lb_other.max_cpu = lb.min_cpu
    /\ lb_other.min_cpu = lb.max_cpu

====
